---- MODULE Spec2Model ----
(***************************************************************************)
(* Model of CesiumEncodedFeaturesMetadata.cpp: the two-phase encoding of   *)
(* feature ID sets and property tables (any-thread part, game-thread part, *)
(* teardown), with the name helpers it uses.                               *)
(*                                                                         *)
(* An FString is a tuple of one-character strings. A texture handle is a   *)
(* positive index into `heap` (the LoadedTextureResult objects created so  *)
(* far); 0 is the null pointer.                                            *)
(***************************************************************************)
EXTENDS Integers, Sequences, FiniteSets, TLC

VARIABLES
    pc,                  \* which call returned last
    featuresDescription, \* argument: TArray<FCesiumFeatureIdSetDescription>
    features,            \* argument: TArray<FCesiumFeatureIdSet>
    metadataDescription, \* argument: TArray<FCesiumPropertyTableDescription>
    metadata,            \* argument: TArray<FCesiumPropertyTable>
    allocResults,        \* results of the createTexturePlatformData calls, in call order
    heap,                \* LoadedTextureResult objects, by handle
    encodedFeatures,     \* EncodedPrimitiveFeatures.featureIdSets
    encodedMetadata,     \* EncodedModelMetadata.propertyTables
    loadCalls,           \* loadTextureGameThreadPart calls of the game-thread part
    success,             \* value the game-thread part returned
    destroyCalls,        \* CesiumLifetime::destroy calls, all teardowns so far
    teardowns,           \* teardown calls that returned
    rawName,             \* argument of createHlslSafeName
    safeName,            \* its result
    formatDetails,       \* argument of getPixelFormat
    formatResult,        \* its result
    earlier              \* the encoded features and the calls of the passes before

vars == <<pc, featuresDescription, features, metadataDescription, metadata,
          allocResults, heap, encodedFeatures, encodedMetadata, loadCalls,
          success, destroyCalls, teardowns, rawName, safeName, formatDetails,
          formatResult, earlier>>

(***************************************************************************)
(* Bounds of the model.                                                    *)
(***************************************************************************)
MaxSets == 3         \* live feature ID sets of a primitive
MaxSetDescs == 2     \* feature ID set descriptions
MaxProps == 2        \* live properties of a property table
MaxPropDescs == 2    \* property descriptions of a table description
MaxNameLen == 3      \* length of a raw name given to createHlslSafeName
MaxRows == 40        \* rows of a property table
MaxTables == 2       \* live property tables of a model
MaxTeardowns == 2    \* teardown calls on one encoded structure
MaxPasses == 2       \* calls of encodePrimitiveFeaturesAnyThreadPart one after the other

(***************************************************************************)
(* Characters and FString.                                                 *)
(***************************************************************************)
LowerCaseChars == <<"a", "b", "c", "d", "e", "f", "g", "h", "i", "j", "k", "l", "m",
                    "n", "o", "p", "q", "r", "s", "t", "u", "v", "w", "x", "y", "z">>

UpperCaseChars == <<"A", "B", "C", "D", "E", "F", "G", "H", "I", "J", "K", "L", "M",
                    "N", "O", "P", "Q", "R", "S", "T", "U", "V", "W", "X", "Y", "Z">>

DigitChars == <<"0", "1", "2", "3", "4", "5", "6", "7", "8", "9">>

Range(s) == {s[i] : i \in DOMAIN s}

\* createHlslSafeName: identifierHeadChar and identifierTailChar.
identifierHeadChar == Range(LowerCaseChars) \cup Range(UpperCaseChars) \cup {"_"}

identifierTailChar == identifierHeadChar \cup Range(DigitChars)

\* FString::FindChar as createHlslSafeName uses it: is the character in the string.
FindChar(chars, c) == c \in chars

\* The character folded to lower case, as FString's comparison does.
LowerCaseOf ==
    [c \in Range(UpperCaseChars) |->
        LowerCaseChars[CHOOSE i \in DOMAIN UpperCaseChars : UpperCaseChars[i] = c]]

ToLower(c) == IF c \in DOMAIN LowerCaseOf THEN LowerCaseOf[c] ELSE c

\* FString operator==. Unreal's FString compares with ESearchCase::IgnoreCase:
\* two strings are equal when they have the same length and the same
\* characters up to letter case.
FStringEquals(a, b) ==
    /\ Len(a) = Len(b)
    /\ \A i \in DOMAIN a : ToLower(a[i]) = ToLower(b[i])

\* std::to_string of a non-negative integer.
RECURSIVE to_string(_)
to_string(n) ==
    IF n < 10 THEN <<DigitChars[n + 1]>>
    ELSE to_string(n \div 10) \o <<DigitChars[(n % 10) + 1]>>

(***************************************************************************)
(* createHlslSafeName.                                                     *)
(***************************************************************************)
\* The loop over the tail: every character from index 1 (the second one) on
\* that is no identifier tail character becomes '_'.
ReplaceTail(name) ==
    [i \in DOMAIN name |->
        IF i >= 2 /\ ~FindChar(identifierTailChar, name[i]) THEN "_" ELSE name[i]]

createHlslSafeNameKeepTail(name) ==
    IF Len(name) = 0 THEN <<"_">>
    ELSE IF ~FindChar(identifierHeadChar, name[1]) THEN <<"_">> \o name ELSE name

createHlslSafeNameNoPrefix(name) ==
    IF Len(name) = 0 THEN <<"_">> ELSE ReplaceTail(name)

createHlslSafeName(name) ==
    IF Len(name) = 0 THEN <<"_">>
    ELSE IF ~FindChar(identifierHeadChar, name[1])
         THEN ReplaceTail(<<"_">> \o name)
         ELSE ReplaceTail(name)

\* A shader-safe identifier: non-empty, head in [A-Za-z_], tail in [A-Za-z0-9_].
IsSafeIdentifier(name) ==
    /\ Len(name) > 0
    /\ name[1] \in identifierHeadChar
    /\ \A i \in DOMAIN name : name[i] \in identifierTailChar

(***************************************************************************)
(* The texture side length of encodePropertyTableAnyThreadPart.            *)
(***************************************************************************)
\* glm::sqrt of a non-negative integer, stored in an int64: floor(sqrt(n)).
FloorSqrt(n) == CHOOSE d \in 0..n : d * d <= n /\ (d + 1) * (d + 1) > n

TextureDimensionNoRoundUp(n) == FloorSqrt(n)

TextureDimension(n) ==
    LET floorSqrtFeatureCount == FloorSqrt(n)
    IN  IF floorSqrtFeatureCount * floorSqrtFeatureCount = n
        THEN floorSqrtFeatureCount
        ELSE floorSqrtFeatureCount + 1

(***************************************************************************)
(* Texture handles and the heap of LoadedTextureResult objects.            *)
(***************************************************************************)
NullHandle == 0

\* A LoadedTextureResult: the source image it was made for (0: none), whether
\* pTextureData holds the staged pixels, whether a strong reference still
\* owns it, and whether pTexture (the realized UTexture2D) is valid; width is
\* the side length asked of createTexturePlatformData.
NewTexture(image, width) ==
    [image |-> image, width |-> width, staged |-> FALSE, live |-> TRUE,
     valid |-> FALSE]

\* TWeakPtr::Pin: the handle while an owner is left, else null.
Pin(heapNow, handle) ==
    IF heapNow[handle].live THEN handle ELSE NullHandle

(***************************************************************************)
(* getNameForFeatureIDSet.                                                 *)
(***************************************************************************)
FEATURE_ID_ == <<"_", "F", "E", "A", "T", "U", "R", "E", "_", "I", "D", "_">>

FEATURE_ID_TEXTURE_ == FEATURE_ID_ \o <<"T", "E", "X", "T", "U", "R", "E", "_">>

IMPLICIT_FEATURE_ID ==
    <<"_", "I", "M", "P", "L", "I", "C", "I", "T", "_">> \o <<"F", "E", "A", "T", "U", "R", "E", "_", "I", "D">>

\* getNameForFeatureIDSet with a counter that every texture set advances,
\* labelled or not.
getNameForFeatureIDSetCountingLabelled(set, FeatureIdTextureCounter) ==
    IF Len(set.label) # 0
    THEN [name |-> set.label,
          counter |-> IF set.type = "Texture" THEN FeatureIdTextureCounter + 1
                      ELSE FeatureIdTextureCounter]
    ELSE IF set.type = "Attribute" /\ set.status = "Valid"
    THEN [name |-> FEATURE_ID_ \o to_string(set.attributeIndex),
          counter |-> FeatureIdTextureCounter]
    ELSE IF set.type = "Texture"
    THEN [name |-> FEATURE_ID_TEXTURE_ \o to_string(FeatureIdTextureCounter),
          counter |-> FeatureIdTextureCounter + 1]
    ELSE IF set.type = "Implicit"
    THEN [name |-> IMPLICIT_FEATURE_ID, counter |-> FeatureIdTextureCounter]
    ELSE [name |-> <<>>, counter |-> FeatureIdTextureCounter]

\* The name and the FeatureIdTextureCounter the call leaves.
getNameForFeatureIDSet(set, FeatureIdTextureCounter) ==
    IF Len(set.label) # 0
    THEN [name |-> set.label, counter |-> FeatureIdTextureCounter]
    ELSE IF set.type = "Attribute" /\ set.status = "Valid"
    THEN [name |-> FEATURE_ID_ \o to_string(set.attributeIndex),
          counter |-> FeatureIdTextureCounter]
    ELSE IF set.type = "Texture"
    THEN [name |-> FEATURE_ID_TEXTURE_ \o to_string(FeatureIdTextureCounter),
          counter |-> FeatureIdTextureCounter + 1]
    ELSE IF set.type = "Implicit"
    THEN [name |-> IMPLICIT_FEATURE_ID, counter |-> FeatureIdTextureCounter]
    ELSE [name |-> <<>>, counter |-> FeatureIdTextureCounter]

\* TArray::FindByPredicate on the Name: the index of the first description
\* whose Name equals the name, 0 when there is none.
FindByNameAny(descriptions, name) ==
    IF Len(descriptions) > 0 THEN 1 ELSE 0

FindByName(descriptions, name) ==
    IF \E k \in DOMAIN descriptions : FStringEquals(descriptions[k].Name, name)
    THEN CHOOSE k \in DOMAIN descriptions :
            /\ FStringEquals(descriptions[k].Name, name)
            /\ \A j \in 1..(k - 1) : ~FStringEquals(descriptions[j].Name, name)
    ELSE 0

(***************************************************************************)
(* Phase 1 of the feature ID sets: encodePrimitiveFeaturesAnyThreadPart.   *)
(***************************************************************************)
None == [some |-> FALSE]

Some(v) == [some |-> TRUE, value |-> v]

\* A default-constructed EncodedFeatureIdSet; attribute -1 and hasTexture
\* FALSE stand for the empty std::optional members.
EmptyEncodedFeatureIdSet ==
    [name |-> <<>>, index |-> -1, propertyTableName |-> <<>>, nullFeatureId |-> -1,
     attribute |-> -1, hasTexture |-> FALSE, pTexture |-> NullHandle]

\* encodeFeatureIdAttribute without the test of the status.
encodeFeatureIdAttributeAnyStatus(attribute) ==
    Some([EmptyEncodedFeatureIdSet EXCEPT !.attribute = attribute.attributeIndex])

encodeFeatureIdAttribute(attribute) ==
    IF attribute.status # "Valid"
    THEN None
    ELSE Some([EmptyEncodedFeatureIdSet EXCEPT !.attribute = attribute.attributeIndex])

\* createTexturePlatformData: the call's result is the next entry of the
\* allocation oracle (TRUE: the platform data was created).
createTexturePlatformData(allocs, oracle) == oracle[Len(allocs) + 1]

\* encodeFeatureIdTexture. st carries the featureIdTextureMap (map), the heap
\* and the allocation results so far; the result is the optional encoded set
\* and the st the call leaves.
encodeFeatureIdTextureNoCache(texture, st, oracle) ==
    IF texture.status # "Valid"
    THEN [encodedSet |-> None, st |-> st]
    ELSE LET handle == Len(st.heap) + 1
             ok == createTexturePlatformData(st.allocs, oracle)
             made == [NewTexture(texture.image, texture.width) EXCEPT !.staged = ok, !.live = ok]
             after == [st EXCEPT !.heap = Append(st.heap, made),
                                 !.allocs = Append(st.allocs, ok)]
         IN  IF ~ok
             THEN [encodedSet |-> None, st |-> after]
             ELSE [encodedSet |-> Some([EmptyEncodedFeatureIdSet EXCEPT
                                           !.hasTexture = TRUE, !.pTexture = handle]),
                   st |-> after]

encodeFeatureIdTexture(texture, st, oracle) ==
    IF texture.status # "Valid"
    THEN [encodedSet |-> None, st |-> st]
    ELSE IF texture.image \in DOMAIN st.map
    THEN \* found in the map: the weak pointer is pinned, whatever it yields
         [encodedSet |-> Some([EmptyEncodedFeatureIdSet EXCEPT
                                  !.hasTexture = TRUE,
                                  !.pTexture = Pin(st.heap, st.map[texture.image])]),
          st |-> st]
    ELSE LET handle == Len(st.heap) + 1
             ok == createTexturePlatformData(st.allocs, oracle)
             \* on failure the function returns std::nullopt: its local result,
             \* the only owner of the new object, is destroyed, and the map
             \* entry stays behind, expired
             made == [NewTexture(texture.image, texture.width) EXCEPT !.staged = ok, !.live = ok]
             after == [st EXCEPT !.heap = Append(st.heap, made),
                                 !.map = (texture.image :> handle) @@ st.map,
                                 !.allocs = Append(st.allocs, ok)]
         IN  IF ~ok
             THEN [encodedSet |-> None, st |-> after]
             ELSE [encodedSet |-> Some([EmptyEncodedFeatureIdSet EXCEPT
                                           !.hasTexture = TRUE, !.pTexture = handle]),
                   st |-> after]

\* The body of the loop of encodePrimitiveFeaturesAnyThreadPart for
\* featureIdSets[i - 1] (the model counts from 1, the code from 0).
EncodeFeatureIdSetStep(i, st, descriptions, sets, oracle) ==
    LET set == sets[i]
        named == getNameForFeatureIDSet(set, st.counter)
        st1 == [st EXCEPT !.counter = named.counter]
        pDescription == FindByName(descriptions, named.name)
    IN  IF pDescription = 0
        THEN st1
        ELSE LET enc == IF set.type = "Attribute"
                        THEN [encodedSet |-> encodeFeatureIdAttribute(set), st |-> st1]
                        ELSE IF set.type = "Texture"
                        THEN encodeFeatureIdTexture(set, st1, oracle)
                        ELSE IF set.type = "Implicit"
                        THEN [encodedSet |-> Some(EmptyEncodedFeatureIdSet), st |-> st1]
                        ELSE [encodedSet |-> None, st |-> st1]
             IN  IF ~enc.encodedSet.some
                 THEN enc.st
                 ELSE [enc.st EXCEPT !.out = Append(@,
                          [enc.encodedSet.value EXCEPT
                              !.name = named.name,
                              !.index = i - 1,
                              !.propertyTableName =
                                  descriptions[pDescription].PropertyTableName,
                              !.nullFeatureId = set.nullFeatureId])]

RECURSIVE EncodeFeatureIdSets(_, _, _, _, _)
EncodeFeatureIdSets(i, st, descriptions, sets, oracle) ==
    IF i > Len(sets)
    THEN st
    ELSE EncodeFeatureIdSets(
             i + 1, EncodeFeatureIdSetStep(i, st, descriptions, sets, oracle),
             descriptions, sets, oracle)

\* The call with a featureIdTextureMap that outlives it: the map starts with
\* an entry for every image a LoadedTextureResult was made for before.
encodePrimitiveFeaturesAnyThreadPartKeptMap(descriptions, sets, heapNow, oracle) ==
    EncodeFeatureIdSets(
        1,
        [out |-> <<>>,
         map |-> [image \in {heapNow[h].image : h \in DOMAIN heapNow} |->
                     CHOOSE h \in DOMAIN heapNow :
                        /\ heapNow[h].image = image
                        /\ \A g \in DOMAIN heapNow :
                            heapNow[g].image = image => h <= g],
         heap |-> heapNow, allocs |-> <<>>, counter |-> 0],
        descriptions, sets, oracle)

\* The whole call: the map and the counter are locals that start empty.
encodePrimitiveFeaturesAnyThreadPart(descriptions, sets, heapNow, oracle) ==
    EncodeFeatureIdSets(
        1,
        [out |-> <<>>, map |-> <<>>, heap |-> heapNow, allocs |-> <<>>, counter |-> 0],
        descriptions, sets, oracle)

(***************************************************************************)
(* Phase 2 and teardown of the feature ID sets.                            *)
(***************************************************************************)
\* loadTextureGameThreadPart(handle): [ok, heap]. A null handle yields
\* nullptr; any other handle is realized or not as the oracle loadOk says,
\* and a realized one has a valid pTexture afterwards.
loadTextureGameThreadPart(handle, heapNow, loadOk) ==
    IF handle = NullHandle
    THEN [ok |-> FALSE, heap |-> heapNow]
    ELSE IF loadOk[handle]
    THEN [ok |-> TRUE, heap |-> [heapNow EXCEPT ![handle].valid = TRUE]]
    ELSE [ok |-> FALSE, heap |-> heapNow]

LoadIntoShortCircuit(st, handle, loadOk) ==
    IF ~st.success
    THEN st
    ELSE LET loaded == loadTextureGameThreadPart(handle, st.heap, loadOk)
         IN  [st EXCEPT !.heap = loaded.heap,
                        !.calls = Append(@, [handle |-> handle, ok |-> loaded.ok]),
                        !.success = loaded.ok]

\* One call of loadTextureGameThreadPart with `success &= ... != nullptr`.
LoadInto(st, handle, loadOk) ==
    LET loaded == loadTextureGameThreadPart(handle, st.heap, loadOk)
    IN  [st EXCEPT !.heap = loaded.heap,
                   !.calls = Append(@, [handle |-> handle, ok |-> loaded.ok]),
                   !.success = @ /\ loaded.ok]

\* The body of the loop of encodePrimitiveFeaturesGameThreadPart.
LoadFeatureIdSetStep(encodedFeatureIdSet, st, loadOk) ==
    IF ~encodedFeatureIdSet.hasTexture
    THEN st
    ELSE IF encodedFeatureIdSet.pTexture \in Range(st.unique)
    THEN st
    ELSE [LoadInto(st, encodedFeatureIdSet.pTexture, loadOk) EXCEPT
             !.unique = Append(st.unique, encodedFeatureIdSet.pTexture)]

RECURSIVE LoadFeatureIdSets(_, _, _, _)
LoadFeatureIdSets(i, sets, st, loadOk) ==
    IF i > Len(sets)
    THEN st
    ELSE LoadFeatureIdSets(i + 1, sets, LoadFeatureIdSetStep(sets[i], st, loadOk), loadOk)

encodePrimitiveFeaturesGameThreadPart(sets, heapNow, loadOk) ==
    LoadFeatureIdSets(
        1, sets,
        [unique |-> <<>>, heap |-> heapNow, calls |-> <<>>, success |-> TRUE],
        loadOk)

\* The release of one texture without the IsValid test.
DestroyTextureUnchecked(st, handle) ==
    [st EXCEPT !.calls = Append(@, handle), !.heap[handle].valid = FALSE]

\* The release of one texture: `if (p->pTexture.IsValid()) { destroy; Reset; }`.
DestroyTexture(st, handle) ==
    IF st.heap[handle].valid
    THEN [st EXCEPT !.calls = Append(@, handle), !.heap[handle].valid = FALSE]
    ELSE st

\* The body of the loop of destroyEncodedPrimitiveFeatures. The code reads
\* pTexture->pTexture without a null check: for a null handle that is
\* undefined behaviour, and nullDeref names what the build makes of it
\* ("crash": the call does not return; "skip": the read yields "not valid").
DestroyFeatureIdSetStep(encodedFeatureIdSet, st, nullDeref) ==
    IF st.crashed \/ ~encodedFeatureIdSet.hasTexture
    THEN st
    ELSE IF encodedFeatureIdSet.pTexture = NullHandle
    THEN [st EXCEPT !.crashed = (nullDeref = "crash")]
    ELSE DestroyTexture(st, encodedFeatureIdSet.pTexture)

RECURSIVE DestroyFeatureIdSets(_, _, _, _)
DestroyFeatureIdSets(i, sets, st, nullDeref) ==
    IF i > Len(sets)
    THEN st
    ELSE DestroyFeatureIdSets(
             i + 1, sets, DestroyFeatureIdSetStep(sets[i], st, nullDeref), nullDeref)

destroyEncodedPrimitiveFeatures(sets, heapNow, calls, nullDeref) ==
    DestroyFeatureIdSets(
        1, sets, [heap |-> heapNow, calls |-> calls, crashed |-> FALSE], nullDeref)

(***************************************************************************)
(* Phase 1 of the property tables.                                         *)
(***************************************************************************)
\* getPixelFormat with a Float case that ends in the scalar format.
getPixelFormatFloatDefault(encodingDetails) ==
    IF encodingDetails.ComponentType = "Uint8"
    THEN IF encodingDetails.Type = "Scalar"
         THEN [format |-> "PF_R8_UINT", pixelSize |-> 1]
         ELSE IF encodingDetails.Type \in {"Vec2", "Vec3", "Vec4"}
         THEN [format |-> "PF_R8G8B8A8_UINT", pixelSize |-> 4]
         ELSE [format |-> "PF_Unknown", pixelSize |-> 0]
    ELSE IF encodingDetails.ComponentType = "Float"
    THEN IF encodingDetails.Type \in {"Vec2", "Vec3", "Vec4"}
         THEN [format |-> "PF_A32B32G32R32F", pixelSize |-> 16]
         ELSE [format |-> "PF_R32_FLOAT", pixelSize |-> 4]
    ELSE [format |-> "PF_Unknown", pixelSize |-> 0]

\* getPixelFormat: the EPixelFormat and the pixel size in bytes. The inner
\* switch of the Float case has no default: any other Type leaves it and
\* falls through to the default of the outer switch.
getPixelFormat(encodingDetails) ==
    IF encodingDetails.ComponentType = "Uint8"
    THEN IF encodingDetails.Type = "Scalar"
         THEN [format |-> "PF_R8_UINT", pixelSize |-> 1]
         ELSE IF encodingDetails.Type \in {"Vec2", "Vec3", "Vec4"}
         THEN [format |-> "PF_R8G8B8A8_UINT", pixelSize |-> 4]
         ELSE [format |-> "PF_Unknown", pixelSize |-> 0]
    ELSE IF encodingDetails.ComponentType = "Float"
    THEN IF encodingDetails.Type = "Scalar"
         THEN [format |-> "PF_R32_FLOAT", pixelSize |-> 4]
         ELSE IF encodingDetails.Type \in {"Vec2", "Vec3", "Vec4"}
         THEN [format |-> "PF_A32B32G32R32F", pixelSize |-> 16]
         ELSE [format |-> "PF_Unknown", pixelSize |-> 0]
    ELSE [format |-> "PF_Unknown", pixelSize |-> 0]

\* isValidPropertyTablePropertyDescription that gives up on a value type
\* that differs from the declared one.
isValidPropertyTablePropertyDescriptionSameType(propertyDescription, property) ==
    /\ propertyDescription.EncodingDetails.Type # "None"
    /\ propertyDescription.EncodingDetails.ComponentType # "None"
    /\ property.valueType.Type = propertyDescription.PropertyDetails.Type
    /\ property.valueType.ComponentType = propertyDescription.PropertyDetails.ComponentType
    /\ propertyDescription.PropertyDetails.bIsNormalized = property.isNormalized
    /\ property.isNormalized => property.valueType.ComponentType = "Uint8"

\* isValidPropertyTablePropertyDescription. A value type that differs from
\* the declared one is logged and nothing more.
isValidPropertyTablePropertyDescriptionAnyNormalized(propertyDescription, property) ==
    /\ propertyDescription.EncodingDetails.Type # "None"
    /\ propertyDescription.EncodingDetails.ComponentType # "None"
    /\ propertyDescription.PropertyDetails.bIsNormalized = property.isNormalized

isValidPropertyTablePropertyDescription(propertyDescription, property) ==
    IF propertyDescription.EncodingDetails.Type = "None"
    THEN FALSE
    ELSE IF propertyDescription.EncodingDetails.ComponentType = "None"
    THEN FALSE
    ELSE IF propertyDescription.PropertyDetails.bIsNormalized # property.isNormalized
    THEN FALSE
    ELSE IF property.isNormalized /\ property.valueType.ComponentType # "Uint8"
    THEN FALSE
    ELSE TRUE

\* CesiumEncodedMetadataCoerce::canEncode and
\* CesiumEncodedMetadataParseColorFromString::canEncode: what the converter
\* says of the description, carried by the description as bCoerce / bParse.
CoerceCanEncode(propertyDescription) == propertyDescription.bCoerce

ParseColorFromStringCanEncode(propertyDescription) == propertyDescription.bParse

\* A just-emplaced EncodedPropertyTableProperty; "unset" stands for an empty
\* FCesiumMetadataValue. key is not a member of the struct: it records which
\* live property the descriptor was made for.
EmptyEncodedPropertyTableProperty ==
    [name |-> <<>>, type |-> "None", pTexture |-> NullHandle, offset |-> "unset",
     scale |-> "unset", noData |-> "unset", defaultValue |-> "unset", key |-> <<>>]

\* The four optional values, read from the live property when flagged.
AttachValues(encodedProperty, propertyDetails, property) ==
    [encodedProperty EXCEPT
        !.offset = IF propertyDetails.bHasOffset THEN property.offset ELSE @,
        !.scale = IF propertyDetails.bHasScale THEN property.scale ELSE @,
        !.noData = IF propertyDetails.bHasNoDataValue THEN property.noData ELSE @,
        !.defaultValue =
            IF propertyDetails.bHasDefaultValue THEN property.defaultValue ELSE @]

\* The body of the loop of encodePropertyTableAnyThreadPart for one entry
\* of the live table's property map. st carries the properties emplaced so
\* far (out), the heap and the allocation results.
EncodePropertyStep(property, st, propertyTableDescription, propertyTableCount, oracle) ==
    LET pDescription == FindByName(propertyTableDescription.Properties, property.key)
    IN  IF pDescription = 0
        THEN st
        ELSE
        LET description == propertyTableDescription.Properties[pDescription]
            encodingDetails == description.EncodingDetails
        IN  IF encodingDetails.Conversion = "None"
            THEN st
            ELSE IF ~isValidPropertyTablePropertyDescription(description, property)
            THEN st
            ELSE IF encodingDetails.Conversion = "Coerce" /\ ~CoerceCanEncode(description)
            THEN st
            ELSE IF /\ encodingDetails.Conversion = "ParseColorFromString"
                    /\ ~ParseColorFromStringCanEncode(description)
            THEN st
            ELSE IF getPixelFormat(encodingDetails).format = "PF_Unknown"
            THEN st
            ELSE
            LET encodedProperty ==
                    [EmptyEncodedPropertyTableProperty EXCEPT
                        !.name = createHlslSafeName(description.Name),
                        !.type = encodingDetails.Type,
                        !.key = property.key]
            IN  IF property.status = "Valid"
                THEN LET handle == Len(st.heap) + 1
                         ok == createTexturePlatformData(st.allocs, oracle)
                         made == [NewTexture(0, TextureDimension(propertyTableCount))
                                     EXCEPT !.staged = ok]
                         st1 == [st EXCEPT !.heap = Append(@, made),
                                           !.allocs = Append(@, ok)]
                         withTexture == [encodedProperty EXCEPT !.pTexture = handle]
                     IN  IF ~ok
                         THEN \* `continue` after the Emplace_GetRef: the entry
                              \* stays in the array as it is now
                              [st1 EXCEPT !.out = Append(@, withTexture)]
                         ELSE [st1 EXCEPT !.out = Append(@,
                                  AttachValues(withTexture, description.PropertyDetails,
                                               property))]
                ELSE [st EXCEPT !.out = Append(@,
                         AttachValues(encodedProperty, description.PropertyDetails,
                                      property))]

RECURSIVE EncodeProperties(_, _, _, _, _, _)
EncodeProperties(i, properties, st, propertyTableDescription, propertyTableCount, oracle) ==
    IF i > Len(properties)
    THEN st
    ELSE EncodeProperties(
             i + 1, properties,
             EncodePropertyStep(properties[i], st, propertyTableDescription,
                                propertyTableCount, oracle),
             propertyTableDescription, propertyTableCount, oracle)

\* encodePropertyTableAnyThreadPart: st.out becomes the properties of the
\* EncodedPropertyTable.
encodePropertyTableAnyThreadPart(propertyTableDescription, propertyTable, st, oracle) ==
    EncodeProperties(1, propertyTable.properties, [st EXCEPT !.out = <<>>],
                     propertyTableDescription, propertyTable.count, oracle)

getNameForPropertyTable(propertyTable) ==
    IF Len(propertyTable.name) = 0 THEN propertyTable.className ELSE propertyTable.name

\* The loop over the property tables of encodeModelMetadataAnyThreadPart;
\* st.tables collects result.propertyTables. The loop over the property
\* textures has an empty body and result.propertyTextures stays empty.
EncodeTableStep(propertyTable, st, modelDescription, oracle) ==
    LET propertyTableName == getNameForPropertyTable(propertyTable)
        pExpectedPropertyTable == FindByName(modelDescription, propertyTableName)
    IN  IF pExpectedPropertyTable = 0
        THEN st
        ELSE LET enc == encodePropertyTableAnyThreadPart(
                            modelDescription[pExpectedPropertyTable],
                            propertyTable, st, oracle)
             IN  [enc EXCEPT !.tables = Append(@,
                     [name |-> propertyTableName, properties |-> enc.out])]

RECURSIVE EncodeTables(_, _, _, _, _)
EncodeTables(i, propertyTables, st, modelDescription, oracle) ==
    IF i > Len(propertyTables)
    THEN st
    ELSE EncodeTables(
             i + 1, propertyTables,
             EncodeTableStep(propertyTables[i], st, modelDescription, oracle),
             modelDescription, oracle)

encodeModelMetadataAnyThreadPart(modelDescription, propertyTables, heapNow, oracle) ==
    EncodeTables(
        1, propertyTables,
        [tables |-> <<>>, out |-> <<>>, heap |-> heapNow, allocs |-> <<>>],
        modelDescription, oracle)

(***************************************************************************)
(* Phase 2 and teardown of the property tables.                            *)
(***************************************************************************)
\* The loop body without `if (encodedProperty.pTexture)`.
LoadPropertyStepUnchecked(encodedProperty, st, loadOk) ==
    LoadInto(st, encodedProperty.pTexture, loadOk)

LoadPropertyStep(encodedProperty, st, loadOk) ==
    IF encodedProperty.pTexture # NullHandle
    THEN LoadInto(st, encodedProperty.pTexture, loadOk)
    ELSE st

RECURSIVE LoadProperties(_, _, _, _)
LoadProperties(i, properties, st, loadOk) ==
    IF i > Len(properties)
    THEN st
    ELSE LoadProperties(i + 1, properties, LoadPropertyStep(properties[i], st, loadOk),
                        loadOk)

\* encodePropertyTableGameThreadPart: its own success starts true.
encodePropertyTableGameThreadPart(encodedPropertyTable, st, loadOk) ==
    LoadProperties(1, encodedPropertyTable.properties, [st EXCEPT !.success = TRUE],
                   loadOk)

\* The loop over the tables of encodeModelMetadataGameThreadPart, with
\* `success &= encodePropertyTableGameThreadPart(...)`. The loop over the
\* property textures before it runs over an empty array.
RECURSIVE LoadTables(_, _, _, _)
LoadTables(i, tables, st, loadOk) ==
    IF i > Len(tables)
    THEN st
    ELSE LET one == encodePropertyTableGameThreadPart(tables[i], st, loadOk)
         IN  LoadTables(i + 1, tables,
                        [one EXCEPT !.success = st.success /\ one.success], loadOk)

encodeModelMetadataGameThreadPart(tables, heapNow, loadOk) ==
    LoadTables(1, tables, [heap |-> heapNow, calls |-> <<>>, success |-> TRUE], loadOk)

DestroyPropertyStep(encodedProperty, st) ==
    IF encodedProperty.pTexture # NullHandle
    THEN DestroyTexture(st, encodedProperty.pTexture)
    ELSE st

RECURSIVE DestroyProperties(_, _, _)
DestroyProperties(i, properties, st) ==
    IF i > Len(properties)
    THEN st
    ELSE DestroyProperties(i + 1, properties, DestroyPropertyStep(properties[i], st))

RECURSIVE DestroyTables(_, _, _)
DestroyTables(i, tables, st) ==
    IF i > Len(tables)
    THEN st
    ELSE DestroyTables(i + 1, tables, DestroyProperties(1, tables[i].properties, st))

\* destroyEncodedModelMetadata; propertyTextures is empty.
destroyEncodedModelMetadata(tables, heapNow, calls) ==
    DestroyTables(1, tables, [heap |-> heapNow, calls |-> calls, crashed |-> FALSE])

(***************************************************************************)
(* The inputs the calls are given.                                         *)
(***************************************************************************)
\* The strictly increasing index sequences of length at most maxLen over
\* 1..n: which entries of a master list a description list holds.
IncreasingIndexSeqs(n, maxLen) ==
    UNION {{q \in [1..k -> 1..n] : \A i \in 1..k : \A j \in 1..k : i < j => q[i] < q[j]} :
           k \in 0..maxLen}

SeqsUpTo(S, maxLen) == UNION {[1..k -> S] : k \in 0..maxLen}

Images == {1, 2}

Label1A == <<"1", "A">>

\* Live feature ID sets. A field the code never reads for a kind of set has
\* one value.
FeatureIdSet(label, type, status, image) ==
    [label |-> label, type |-> type, status |-> status, attributeIndex |-> 0,
     image |-> image, width |-> 1, nullFeatureId |-> -1]

\* Texture sets: of either image, labelled, and not valid.
TextureSetValues ==
    {FeatureIdSet(<<>>, "Texture", "Valid", i) : i \in Images}
        \cup {FeatureIdSet(Label1A, "Texture", "Valid", 1),
              FeatureIdSet(<<>>, "Texture", "Invalid", 1)}

\* The other kinds of set, and one texture set among them.
MixedSetValues ==
    {FeatureIdSet(<<>>, "Attribute", s, 1) : s \in {"Valid", "Invalid"}}
        \cup {FeatureIdSet(<<>>, "Implicit", "Valid", 1),
              FeatureIdSet(<<>>, "None", "Valid", 1),
              FeatureIdSet(<<>>, "Texture", "Valid", 1)}

FeatureIdSetLists ==
    SeqsUpTo(TextureSetValues, MaxSets) \cup SeqsUpTo(MixedSetValues, MaxSets)

\* The names feature ID set descriptions ask for; "1a" differs from the
\* label "1A" in letter case only, and the last name is the empty string.
FeatureIdSetDescriptionNames ==
    << <<"1", "a">>, FEATURE_ID_TEXTURE_ \o <<"0">>, FEATURE_ID_TEXTURE_ \o <<"1">>,
       FEATURE_ID_ \o <<"0">>, IMPLICIT_FEATURE_ID, <<>> >>

FeatureIdSetDescriptionLists ==
    {[k \in DOMAIN q |->
        [Name |-> FeatureIdSetDescriptionNames[q[k]], PropertyTableName |-> <<"t">>]] :
     q \in IncreasingIndexSeqs(Len(FeatureIdSetDescriptionNames), MaxSetDescs)}

\* A live property-table property and a description of one.
Property(key, status, componentType, isNormalized) ==
    [key |-> key, status |-> status,
     valueType |-> [Type |-> "Scalar", ComponentType |-> componentType],
     isNormalized |-> isNormalized, offset |-> "offset", scale |-> "scale",
     noData |-> "noData", defaultValue |-> "defaultValue"]

NoFlags ==
    [bHasOffset |-> FALSE, bHasScale |-> FALSE, bHasNoDataValue |-> FALSE,
     bHasDefaultValue |-> FALSE]

PropertyDescription(name, componentType, bIsNormalized, flags, encodingDetails, canEncode) ==
    [Name |-> name,
     PropertyDetails |->
         [Type |-> "Scalar", ComponentType |-> componentType,
          bIsNormalized |-> bIsNormalized, bHasOffset |-> flags.bHasOffset,
          bHasScale |-> flags.bHasScale, bHasNoDataValue |-> flags.bHasNoDataValue,
          bHasDefaultValue |-> flags.bHasDefaultValue],
     EncodingDetails |-> encodingDetails,
     bCoerce |-> canEncode, bParse |-> canEncode]

DefaultProperty(key, status) == Property(key, status, "Uint8", FALSE)

DefaultPropertyDescription(name) ==
    PropertyDescription(
        name, "Uint8", FALSE, NoFlags,
        [Type |-> "Scalar", ComponentType |-> "Uint8", Conversion |-> "Coerce"], TRUE)

KeyH == <<"h">>

\* The key of the i-th entry of a live table's property map.
PropertyKey(i) == IF i = 1 THEN KeyH ELSE <<DigitChars[i + 1], " ">>

Table(name, count, properties) ==
    [name |-> name, className |-> <<"c">>, count |-> count, properties |-> properties]

\* (a) One table with one property and one description of the same name:
\* every combination of the fields the encoder reads.
WideProperties ==
    {Property(KeyH, s, c, n) : s \in {"Valid", "Invalid"}, c \in {"Uint8", "Float32"},
                               n \in BOOLEAN}

FlagChoices ==
    {f \in [bHasOffset : BOOLEAN, bHasScale : BOOLEAN, bHasNoDataValue : BOOLEAN,
            bHasDefaultValue : BOOLEAN] :
        Cardinality({x \in {"o", "s", "n", "d"} :
                        \/ x = "o" /\ f.bHasOffset
                        \/ x = "s" /\ f.bHasScale
                        \/ x = "n" /\ f.bHasNoDataValue
                        \/ x = "d" /\ f.bHasDefaultValue}) \in {0, 1, 4}}

\* A description the encoder gives up on at once (no conversion, or no
\* encoded type or component type) has one value in the fields that are
\* then never read.
WidePropertyDescriptions ==
    {d \in {PropertyDescription(KeyH, c, n, f, e, b) :
                c \in {"Uint8", "Float32"}, n \in BOOLEAN, f \in FlagChoices,
                e \in [Type : {"None", "Scalar", "Vec3"},
                       ComponentType : {"None", "Uint8", "Float"},
                       Conversion : {"None", "Coerce", "ParseColorFromString"}],
                b \in BOOLEAN} :
        (\/ d.EncodingDetails.Conversion = "None"
         \/ d.EncodingDetails.Type = "None"
         \/ d.EncodingDetails.ComponentType = "None")
            => /\ d.bCoerce
               /\ d.PropertyDetails.ComponentType = "Uint8"
               /\ ~d.PropertyDetails.bHasOffset /\ ~d.PropertyDetails.bHasScale
               /\ ~d.PropertyDetails.bHasNoDataValue
               /\ ~d.PropertyDetails.bHasDefaultValue}

WideInputs ==
    {[description |-> << [Name |-> <<"t">>, Properties |-> <<d>>] >>,
      tables |-> << Table(<<"t">>, 1, <<p>>) >>] :
     d \in WidePropertyDescriptions, p \in WideProperties}

\* (b) One table with up to MaxProps properties and up to MaxPropDescs
\* descriptions; the names and the statuses vary. "H" differs from the key
\* "h" in letter case only.
PropertyDescriptionNames ==
    << <<"H">> >> \o [i \in 1..MaxProps |-> PropertyKey(i)]

PropertyLists ==
    UNION {{[i \in 1..k |-> DefaultProperty(PropertyKey(i), s[i])] :
            s \in [1..k -> {"Valid", "Invalid"}]} : k \in 0..MaxProps}

PropertyDescriptionLists ==
    {[k \in DOMAIN q |-> DefaultPropertyDescription(PropertyDescriptionNames[q[k]])] :
     q \in IncreasingIndexSeqs(Len(PropertyDescriptionNames), MaxPropDescs)}

ManyPropertiesInputs ==
    {[description |-> << [Name |-> <<"t">>, Properties |-> d] >>,
      tables |-> << Table(<<"t">>, 1, p) >>] :
     d \in PropertyDescriptionLists, p \in PropertyLists}

\* (c) Up to MaxTables tables of one valid property each, the first one
\* unnamed (it goes by its class name), and descriptions of some of them.
TableName(i) == IF i = 1 THEN <<>> ELSE <<"t", DigitChars[i + 1]>>

TableDescriptionNames ==
    [i \in 1..MaxTables |-> IF i = 1 THEN <<"c">> ELSE TableName(i)]

ManyTablesInputs ==
    {[description |->
          [k \in DOMAIN q |->
              [Name |-> TableDescriptionNames[q[k]],
               Properties |-> <<DefaultPropertyDescription(KeyH)>>]],
      tables |->
          [i \in 1..n |-> Table(TableName(i), 1, <<DefaultProperty(KeyH, "Valid")>>)]] :
     q \in IncreasingIndexSeqs(MaxTables, MaxTables), n \in 0..MaxTables}

\* (d) One table of one valid, described property and 0..MaxRows rows.
RowCountInputs ==
    {[description |->
          << [Name |-> <<"t">>, Properties |-> <<DefaultPropertyDescription(KeyH)>>] >>,
      tables |-> << Table(<<"t">>, n, <<DefaultProperty(KeyH, "Valid")>>) >>] :
     n \in 0..MaxRows}

\* (e) One table of two valid properties, each described; the description
\* of the first asks for an encoding getPixelFormat has no format for.
UnknownFormatInputs ==
    {[description |->
          << [Name |-> <<"t">>,
              Properties |->
                  << PropertyDescription(
                         KeyH, "Uint8", FALSE, NoFlags,
                         [Type |-> e[1], ComponentType |-> e[2], Conversion |-> "Coerce"],
                         TRUE),
                     DefaultPropertyDescription(PropertyKey(2)) >>] >>,
      tables |->
          << Table(<<"t">>, 1, <<DefaultProperty(KeyH, "Valid"),
                                 DefaultProperty(PropertyKey(2), "Valid")>>) >>] :
     e \in {<<"None", "Uint8">>, <<"None", "Float">>, <<"Vec3", "None">>}}

ModelMetadataInputs ==
    WideInputs \cup ManyPropertiesInputs \cup ManyTablesInputs \cup RowCountInputs
        \cup UnknownFormatInputs

\* The encoding details getPixelFormat is asked about: every value of
\* ECesiumEncodedMetadataType and ECesiumEncodedMetadataComponentType.
EncodedMetadataTypes == {"None", "Scalar", "Vec2", "Vec3", "Vec4"}

EncodedMetadataComponentTypes == {"None", "Uint8", "Float"}

EncodingDetailsValues ==
    [Type : EncodedMetadataTypes, ComponentType : EncodedMetadataComponentTypes,
     Conversion : {"Coerce"}]

\* Raw names for createHlslSafeName: a letter of each case, a digit, the
\* underscore, a blank and a hyphen.
RawNameChars == {"a", "Z", "7", "_", " ", "-"}

RawNames == SeqsUpTo(RawNameChars, MaxNameLen)

\* The oracles of the calls the model does not look into: entry k of an
\* allocation oracle is the result of the k-th createTexturePlatformData
\* call, entry h of a load oracle that of loadTextureGameThreadPart(h).
\* Entries no call reads are TRUE.
AllTrue(n) == [k \in 1..n |-> TRUE]

Oracles(n, used) == {o \in [1..n -> BOOLEAN] : \A k \in 1..n : k \notin used => o[k]}

\* The handles phase 2 hands to loadTextureGameThreadPart.
PendingFeatureHandles(sets) ==
    {sets[i].pTexture : i \in {j \in DOMAIN sets : sets[j].hasTexture}}

PendingTableHandles(tables) ==
    UNION {{tables[t].properties[i].pTexture : i \in DOMAIN tables[t].properties} :
           t \in DOMAIN tables} \ {NullHandle}

(***************************************************************************)
(* The state machine.                                                      *)
(***************************************************************************)
Init ==
    /\ pc = "idle"
    /\ featuresDescription = <<>>
    /\ features = <<>>
    /\ metadataDescription = <<>>
    /\ metadata = <<>>
    /\ allocResults = <<>>
    /\ heap = <<>>
    /\ encodedFeatures = <<>>
    /\ encodedMetadata = <<>>
    /\ loadCalls = <<>>
    /\ success = TRUE
    /\ destroyCalls = <<>>
    /\ teardowns = 0
    /\ rawName = <<>>
    /\ safeName = <<>>
    /\ formatDetails = [Type |-> "None", ComponentType |-> "None", Conversion |-> "None"]
    /\ formatResult = [format |-> "PF_Unknown", pixelSize |-> 0]
    /\ earlier = <<>>

\* A call of encodePrimitiveFeaturesAnyThreadPart.
EncodePrimitiveFeaturesAnyThreadPart ==
    /\ pc = "idle"
    /\ \E description \in FeatureIdSetDescriptionLists, sets \in FeatureIdSetLists :
        \E oracle \in [1..Len(encodePrimitiveFeaturesAnyThreadPart(
                                   description, sets, heap, AllTrue(MaxSets)).allocs)
                         -> BOOLEAN] :
            LET r == encodePrimitiveFeaturesAnyThreadPart(description, sets, heap, oracle)
            IN  /\ featuresDescription' = description
                /\ features' = sets
                /\ allocResults' = r.allocs
                /\ heap' = r.heap
                /\ encodedFeatures' = r.out
    /\ pc' = "featuresEncoded"
    /\ UNCHANGED <<metadataDescription, metadata, encodedMetadata, loadCalls, success,
                   destroyCalls, teardowns, rawName, safeName,
                   formatDetails, formatResult, earlier>>

\* A call of encodePrimitiveFeaturesGameThreadPart on the encoded features.
EncodePrimitiveFeaturesGameThreadPart ==
    /\ pc = "featuresEncoded"
    /\ \E loadOk \in Oracles(Len(heap), PendingFeatureHandles(encodedFeatures)) :
            LET r == encodePrimitiveFeaturesGameThreadPart(encodedFeatures, heap, loadOk)
            IN  /\ heap' = r.heap
                /\ loadCalls' = r.calls
                /\ success' = r.success
    /\ pc' = "featuresLoaded"
    /\ UNCHANGED <<featuresDescription, features, metadataDescription, metadata,
                   allocResults, encodedFeatures, encodedMetadata, destroyCalls,
                   teardowns, rawName, safeName,
                   formatDetails, formatResult, earlier>>

\* A call of destroyEncodedPrimitiveFeatures, the first or a later one.
DestroyEncodedPrimitiveFeatures ==
    /\ pc \in {"featuresEncoded", "featuresLoaded", "featuresDestroyed"}
    /\ teardowns < MaxTeardowns
    /\ \E nullDeref \in {"crash", "skip"} :
            LET r == destroyEncodedPrimitiveFeatures(
                         encodedFeatures, heap, destroyCalls, nullDeref)
            IN  /\ heap' = r.heap
                /\ destroyCalls' = r.calls
                /\ pc' = IF r.crashed THEN "crashed" ELSE "featuresDestroyed"
                /\ teardowns' = IF r.crashed THEN teardowns ELSE teardowns + 1
    /\ UNCHANGED <<featuresDescription, features, metadataDescription, metadata,
                   allocResults, encodedFeatures, encodedMetadata, loadCalls, success,
                   rawName, safeName,
                   formatDetails, formatResult, earlier>>

\* A call of encodeModelMetadataAnyThreadPart.
EncodeModelMetadataAnyThreadPart ==
    /\ pc = "idle"
    /\ \E input \in ModelMetadataInputs :
        \E oracle \in [1..Len(encodeModelMetadataAnyThreadPart(
                                   input.description, input.tables, heap,
                                   AllTrue(MaxProps + MaxTables)).allocs)
                         -> BOOLEAN] :
            LET r == encodeModelMetadataAnyThreadPart(
                         input.description, input.tables, heap, oracle)
            IN  /\ metadataDescription' = input.description
                /\ metadata' = input.tables
                /\ allocResults' = r.allocs
                /\ heap' = r.heap
                /\ encodedMetadata' = r.tables
    /\ pc' = "metadataEncoded"
    /\ UNCHANGED <<featuresDescription, features, encodedFeatures, loadCalls, success,
                   destroyCalls, teardowns, rawName, safeName,
                   formatDetails, formatResult, earlier>>

\* A call of encodeModelMetadataGameThreadPart on the encoded metadata.
EncodeModelMetadataGameThreadPart ==
    /\ pc = "metadataEncoded"
    /\ \E loadOk \in Oracles(Len(heap), PendingTableHandles(encodedMetadata)) :
            LET r == encodeModelMetadataGameThreadPart(encodedMetadata, heap, loadOk)
            IN  /\ heap' = r.heap
                /\ loadCalls' = r.calls
                /\ success' = r.success
    /\ pc' = "metadataLoaded"
    /\ UNCHANGED <<featuresDescription, features, metadataDescription, metadata,
                   allocResults, encodedFeatures, encodedMetadata, destroyCalls,
                   teardowns, rawName, safeName,
                   formatDetails, formatResult, earlier>>

\* A call of destroyEncodedModelMetadata, the first or a later one.
DestroyEncodedModelMetadata ==
    /\ pc \in {"metadataEncoded", "metadataLoaded", "metadataDestroyed"}
    /\ teardowns < MaxTeardowns
    /\ LET r == destroyEncodedModelMetadata(encodedMetadata, heap, destroyCalls)
       IN  /\ heap' = r.heap
           /\ destroyCalls' = r.calls
    /\ pc' = "metadataDestroyed"
    /\ teardowns' = teardowns + 1
    /\ UNCHANGED <<featuresDescription, features, metadataDescription, metadata,
                   allocResults, encodedFeatures, encodedMetadata, loadCalls, success,
                   rawName, safeName,
                   formatDetails, formatResult, earlier>>

\* A call of createHlslSafeName.
CreateHlslSafeName ==
    /\ pc = "idle"
    /\ \E raw \in RawNames :
            /\ rawName' = raw
            /\ safeName' = createHlslSafeName(raw)
    /\ pc' = "named"
    /\ UNCHANGED <<featuresDescription, features, metadataDescription, metadata,
                   allocResults, heap, encodedFeatures, encodedMetadata, loadCalls,
                   success, destroyCalls, teardowns, formatDetails, formatResult,
                   earlier>>

\* A call of getPixelFormat.
GetPixelFormat ==
    /\ pc = "idle"
    /\ \E details \in EncodingDetailsValues :
            /\ formatDetails' = details
            /\ formatResult' = getPixelFormat(details)
    /\ pc' = "formatted"
    /\ UNCHANGED <<featuresDescription, features, metadataDescription, metadata,
                   allocResults, heap, encodedFeatures, encodedMetadata, loadCalls,
                   success, destroyCalls, teardowns, rawName, safeName, earlier>>

Next ==
    \/ EncodePrimitiveFeaturesAnyThreadPart
    \/ EncodePrimitiveFeaturesGameThreadPart
    \/ DestroyEncodedPrimitiveFeatures
    \/ EncodeModelMetadataAnyThreadPart
    \/ EncodeModelMetadataGameThreadPart
    \/ DestroyEncodedModelMetadata
    \/ CreateHlslSafeName
    \/ GetPixelFormat

Spec == Init /\ [][Next]_vars

(***************************************************************************)
(* Passes one after the other: encodePrimitiveFeaturesAnyThreadPart is     *)
(* called again, for another primitive, while the structures of the passes *)
(* before are still held (earlier), and each pass has its game-thread      *)
(* part.                                                                   *)
(***************************************************************************)
\* Lists of one or two valid texture sets without a label, of either image,
\* and the descriptions of both.
PassSetValues == {FeatureIdSet(<<>>, "Texture", "Valid", i) : i \in Images}

PassSetLists ==
    {<<a>> : a \in PassSetValues} \cup {<<a, b>> : a \in PassSetValues, b \in PassSetValues}

PassDescriptions ==
    << [Name |-> FEATURE_ID_TEXTURE_ \o <<"0">>, PropertyTableName |-> <<"t">>],
       [Name |-> FEATURE_ID_TEXTURE_ \o <<"1">>, PropertyTableName |-> <<"t">>] >>

PassesBegun == Len(earlier) + (IF pc = "idle" THEN 0 ELSE 1)

\* A call of encodePrimitiveFeaturesAnyThreadPart, the first or a later one.
EncodeNextPrimitiveFeaturesAnyThreadPart ==
    /\ pc \in {"idle", "featuresEncoded", "featuresLoaded"}
    /\ PassesBegun < MaxPasses
    /\ \E sets \in PassSetLists :
        \E oracle \in [1..Len(encodePrimitiveFeaturesAnyThreadPart(
                                   PassDescriptions, sets, heap, AllTrue(Len(sets))).allocs)
                         -> BOOLEAN] :
            LET r == encodePrimitiveFeaturesAnyThreadPart(
                         PassDescriptions, sets, heap, oracle)
            IN  /\ featuresDescription' = PassDescriptions
                /\ features' = sets
                /\ allocResults' = r.allocs
                /\ heap' = r.heap
                /\ encodedFeatures' = r.out
    /\ earlier' =
            IF pc = "idle"
            THEN earlier
            ELSE Append(earlier,
                        [features |-> features, encodedFeatures |-> encodedFeatures,
                         loadCalls |-> loadCalls, loaded |-> pc = "featuresLoaded"])
    /\ loadCalls' = <<>>
    /\ success' = TRUE
    /\ pc' = "featuresEncoded"
    /\ UNCHANGED <<metadataDescription, metadata, encodedMetadata, destroyCalls,
                   teardowns, rawName, safeName, formatDetails, formatResult>>

NextPasses ==
    \/ EncodeNextPrimitiveFeaturesAnyThreadPart
    \/ EncodePrimitiveFeaturesGameThreadPart

SpecPasses == Init /\ [][NextPasses]_vars

(***************************************************************************)
(* What the properties below speak of.                                     *)
(***************************************************************************)
FeaturesPhases == {"featuresEncoded", "featuresLoaded", "featuresDestroyed"}

MetadataPhases == {"metadataEncoded", "metadataLoaded", "metadataDestroyed"}

\* The FeatureIdTextureCounter before the i-th live set is named, and the
\* name the i-th set resolves to.
RECURSIVE CounterBefore(_, _)
CounterBefore(sets, i) ==
    IF i = 1 THEN 0
    ELSE getNameForFeatureIDSet(sets[i - 1], CounterBefore(sets, i - 1)).counter

ResolvedName(sets, i) == getNameForFeatureIDSet(sets[i], CounterBefore(sets, i)).name

\* The live set an encoded feature ID set was made for.
SetOf(encodedSet) == features[encodedSet.index + 1]

\* The encoded feature ID sets made for the i-th live set.
EncodedSetsOf(i) ==
    {k \in DOMAIN encodedFeatures : encodedFeatures[k].index = i - 1}

IsMatchedValidTexture(i) ==
    /\ features[i].type = "Texture"
    /\ features[i].status = "Valid"
    /\ FindByName(featuresDescription, ResolvedName(features, i)) # 0

\* The encoded properties as (table, property) index pairs.
EncodedProperties ==
    {tp \in (DOMAIN encodedMetadata) \X (1..MaxProps) :
        tp[2] \in DOMAIN encodedMetadata[tp[1]].properties}

EncodedProperty(tp) == encodedMetadata[tp[1]].properties[tp[2]]

\* The live table an encoded table was made for, the live property an
\* encoded property was made for, and the description it was matched with.
LiveTableOf(t) ==
    metadata[CHOOSE i \in DOMAIN metadata :
                getNameForPropertyTable(metadata[i]) = encodedMetadata[t].name]

LivePropertyOf(tp) ==
    LET table == LiveTableOf(tp[1])
    IN  table.properties[CHOOSE i \in DOMAIN table.properties :
                            table.properties[i].key = EncodedProperty(tp).key]

TableDescriptionOf(t) ==
    metadataDescription[FindByName(metadataDescription, encodedMetadata[t].name)]

DescriptionOf(tp) ==
    LET wanted == TableDescriptionOf(tp[1]).Properties
    IN  wanted[FindByName(wanted, EncodedProperty(tp).key)]

Count(calls, handle) == Cardinality({k \in DOMAIN calls : calls[k] = handle})

LoadCount(handle) == Cardinality({k \in DOMAIN loadCalls : loadCalls[k].handle = handle})

\* The textures phase 2 realized.
RealizedHandles == {loadCalls[k].handle : k \in {j \in DOMAIN loadCalls : loadCalls[j].ok}}

C2_ExactNameOnly ==
    /\ pc \in FeaturesPhases =>
          \A k \in DOMAIN encodedFeatures :
              \E d \in DOMAIN featuresDescription :
                  featuresDescription[d].Name =
                      ResolvedName(features, encodedFeatures[k].index + 1)
    /\ pc \in MetadataPhases =>
          \A tp \in EncodedProperties :
              \E t \in DOMAIN metadataDescription :
                  \E d \in DOMAIN metadataDescription[t].Properties :
                      metadataDescription[t].Properties[d].Name = LivePropertyOf(tp).key

(***************************************************************************)
(* C2, amended. An encoded feature ID set or property is in the phase-1    *)
(* output only if some description has a Name equal to the resolved name   *)
(* or map key as FString compares them, that is, up to letter case.        *)
(***************************************************************************)
C2_NameUpToCaseOnly ==
    /\ pc \in FeaturesPhases =>
          \A k \in DOMAIN encodedFeatures :
              \E d \in DOMAIN featuresDescription :
                  LET a == featuresDescription[d].Name
                      b == ResolvedName(features, encodedFeatures[k].index + 1)
                  IN  /\ Len(a) = Len(b)
                      /\ \A c \in DOMAIN a : ToLower(a[c]) = ToLower(b[c])
    /\ pc \in MetadataPhases =>
          \A tp \in EncodedProperties :
              \E t \in DOMAIN metadataDescription :
                  \E d \in DOMAIN metadataDescription[t].Properties :
                      LET a == metadataDescription[t].Properties[d].Name
                          b == LivePropertyOf(tp).key
                      IN  /\ Len(a) = Len(b)
                          /\ \A c \in DOMAIN a : ToLower(a[c]) = ToLower(b[c])

\* A live set and a live property without any such description were given,
\* next to ones that have it and are in the output.
C2_Witness ==
    \/ /\ pc = "featuresEncoded"
       /\ Len(encodedFeatures) = 1
       /\ Len(features) = 2
       /\ FindByName(featuresDescription, ResolvedName(features, 1)) = 0
       /\ encodedFeatures[1].index = 1
    \/ /\ pc = "metadataEncoded"
       /\ Len(metadata) = 1 /\ Len(metadata[1].properties) = 2
       /\ Len(encodedMetadata) = 1 /\ Len(encodedMetadata[1].properties) = 1
       /\ FindByName(metadataDescription[1].Properties, PropertyKey(1)) = 0
       /\ encodedMetadata[1].properties[1].key = PropertyKey(2)

(***************************************************************************)
(* C3. As claimed: every name in the phase-1 output, of an encoded feature *)
(* ID set and of an encoded property alike, is a shader-safe identifier.   *)
(***************************************************************************)
C3_AllNamesSafe ==
    /\ pc \in FeaturesPhases =>
          \A k \in DOMAIN encodedFeatures : IsSafeIdentifier(encodedFeatures[k].name)
    /\ pc \in MetadataPhases =>
          \A tp \in EncodedProperties : IsSafeIdentifier(EncodedProperty(tp).name)

(***************************************************************************)
(* C3, amended. Every encoded property's name is a shader-safe identifier, *)
(* whatever the description's name. An encoded feature ID set's name is    *)
(* the resolved name of its live set, unchanged: it is shader-safe when    *)
(* the set has no label (the generated names are), and it is the label     *)
(* as given otherwise.                                                     *)
(***************************************************************************)
C3_PropertyNamesSafe ==
    /\ pc \in MetadataPhases =>
          \A tp \in EncodedProperties :
              LET name == EncodedProperty(tp).name
              IN  /\ Len(name) > 0
                  /\ name[1] \in identifierHeadChar
                  /\ \A i \in DOMAIN name : name[i] \in identifierTailChar
    /\ pc \in FeaturesPhases =>
          \A k \in DOMAIN encodedFeatures :
              /\ encodedFeatures[k].name =
                     ResolvedName(features, encodedFeatures[k].index + 1)
              /\ Len(SetOf(encodedFeatures[k]).label) = 0
                     => IsSafeIdentifier(encodedFeatures[k].name)
              /\ Len(SetOf(encodedFeatures[k]).label) # 0
                     => encodedFeatures[k].name = SetOf(encodedFeatures[k]).label

\* A property whose description name starts with a digit and holds a blank
\* is in the output, under a name that differs from it.
C3_Witness ==
    /\ pc = "metadataEncoded"
    /\ \E tp \in EncodedProperties :
          /\ ~IsSafeIdentifier(DescriptionOf(tp).Name)
          /\ EncodedProperty(tp).name # DescriptionOf(tp).Name
          /\ EncodedProperty(tp).name = <<"_", "2", "_">>

(***************************************************************************)
(* C4. As claimed: an item whose texture backing could not be created is   *)
(* not in the phase-1 output: no encoded feature ID set and no encoded     *)
(* property holds a texture whose createTexturePlatformData call failed.   *)
(***************************************************************************)
C4_FailedAllocationOmitted ==
    /\ pc \in FeaturesPhases =>
          \A k \in DOMAIN encodedFeatures :
              (encodedFeatures[k].hasTexture /\ encodedFeatures[k].pTexture # NullHandle)
                  => heap[encodedFeatures[k].pTexture].staged
    /\ pc \in MetadataPhases =>
          \A tp \in EncodedProperties :
              EncodedProperty(tp).pTexture # NullHandle
                  => heap[EncodedProperty(tp).pTexture].staged

(***************************************************************************)
(* C5. As claimed: in every encoded property, each of offset, scale,       *)
(* noData and defaultValue is set exactly when the matching description    *)
(* has the flag for it.                                                    *)
(***************************************************************************)
C5_ValuesIffFlagged ==
    pc \in MetadataPhases =>
        \A tp \in EncodedProperties :
            LET details == DescriptionOf(tp).PropertyDetails
                encoded == EncodedProperty(tp)
            IN  /\ (encoded.offset # "unset") <=> details.bHasOffset
                /\ (encoded.scale # "unset") <=> details.bHasScale
                /\ (encoded.noData # "unset") <=> details.bHasNoDataValue
                /\ (encoded.defaultValue # "unset") <=> details.bHasDefaultValue

(***************************************************************************)
(* C6. As claimed: for every row count n, the side length d of the texture *)
(* the property-table encoder asks for has d*d >= n and (d-1)*(d-1) < n.   *)
(***************************************************************************)
C6_SmallestSquare ==
    pc \in MetadataPhases =>
        \A tp \in EncodedProperties :
            EncodedProperty(tp).pTexture # NullHandle
                => LET n == LiveTableOf(tp[1]).count
                       d == heap[EncodedProperty(tp).pTexture].width
                   IN  d * d >= n /\ (d - 1) * (d - 1) < n

(***************************************************************************)
(* C6, amended. For every row count n >= 1, the side length d has          *)
(* d*d >= n and (d-1)*(d-1) < n; for n = 0 it is 0.                        *)
(***************************************************************************)
C6_SmallestSquareOfPositive ==
    pc \in MetadataPhases =>
        \A tp \in EncodedProperties :
            EncodedProperty(tp).pTexture # NullHandle
                => LET n == LiveTableOf(tp[1]).count
                       d == heap[EncodedProperty(tp).pTexture].width
                   IN  /\ n >= 1 => (d * d >= n /\ (d - 1) * (d - 1) < n)
                       /\ n = 0 => d = 0

\* A table of ten rows got a texture of side four.
C6_Witness ==
    /\ pc = "metadataEncoded"
    /\ \E tp \in EncodedProperties :
          /\ EncodedProperty(tp).pTexture # NullHandle
          /\ LiveTableOf(tp[1]).count = 10
          /\ heap[EncodedProperty(tp).pTexture].width = 4

(***************************************************************************)
(* C7. As claimed: for a raw name that is empty or made only of characters *)
(* no identifier may hold, createHlslSafeName returns "_".                 *)
(***************************************************************************)
OnlyInvalidChars(name) == \A i \in DOMAIN name : name[i] \notin identifierTailChar

C7_InvalidNameYieldsUnderscore ==
    (pc = "named" /\ OnlyInvalidChars(rawName)) => safeName = <<"_">>

(***************************************************************************)
(* C7, amended. For the empty raw name createHlslSafeName returns "_"; for *)
(* a raw name of n >= 1 characters none of which an identifier may hold,   *)
(* it returns n + 1 underscores.                                           *)
(***************************************************************************)
C7_InvalidNameYieldsUnderscores ==
    (pc = "named" /\ OnlyInvalidChars(rawName)) =>
        /\ Len(rawName) = 0 => safeName = <<"_">>
        /\ Len(rawName) >= 1 => safeName = [i \in 1..(Len(rawName) + 1) |-> "_"]

C7_Witness ==
    /\ pc = "named"
    /\ rawName = <<" ", "-">>
    /\ safeName = <<"_", "_", "_">>

(***************************************************************************)
(* C8. Phase 2 returns true exactly when every loadTextureGameThreadPart   *)
(* call it made succeeded, and it calls loadTextureGameThreadPart exactly  *)
(* once for every distinct pending handle of the encoded structure,        *)
(* whatever the earlier calls returned.                                    *)
(***************************************************************************)
PendingHandles ==
    IF pc = "featuresLoaded"
    THEN {encodedFeatures[k].pTexture :
             k \in {j \in DOMAIN encodedFeatures : encodedFeatures[j].hasTexture}}
    ELSE {EncodedProperty(tp).pTexture : tp \in EncodedProperties} \ {NullHandle}

C8_SuccessIsConjunction ==
    pc \in {"featuresLoaded", "metadataLoaded"} =>
        /\ success <=> \A k \in DOMAIN loadCalls : loadCalls[k].ok
        /\ \A h \in PendingHandles : LoadCount(h) = 1
        /\ \A k \in DOMAIN loadCalls : loadCalls[k].handle \in PendingHandles

\* A first realization failed and a later one was made and succeeded, in a
\* call on feature ID sets and in a call on property tables.
C8_Witness ==
    /\ pc \in {"featuresLoaded", "metadataLoaded"}
    /\ Len(loadCalls) = 2
    /\ ~loadCalls[1].ok
    /\ loadCalls[2].ok
    /\ ~success

(***************************************************************************)
(* C9. As claimed: once a teardown call has ended, every texture phase 2   *)
(* realized has been passed to CesiumLifetime::destroy exactly once and    *)
(* nothing else has been; that stays so after a second teardown call.      *)
(***************************************************************************)
C9_ReleasedExactlyOnce ==
    pc \in {"featuresDestroyed", "metadataDestroyed", "crashed"} =>
        /\ \A h \in RealizedHandles : Count(destroyCalls, h) = 1
        /\ \A k \in DOMAIN destroyCalls : destroyCalls[k] \in RealizedHandles

(***************************************************************************)
(* C10. A property whose description declares it normalized while the live *)
(* property's component type is not Uint8 is never in the output of        *)
(* encodePropertyTableAnyThreadPart.                                       *)
(***************************************************************************)
C10_NormalizedNonUint8Skipped ==
    pc \in MetadataPhases =>
        \A tp \in EncodedProperties :
            ~(/\ DescriptionOf(tp).PropertyDetails.bIsNormalized
              /\ LivePropertyOf(tp).valueType.ComponentType # "Uint8")

\* Such a property was given, valid and normalized, with a description that
\* passes every other check, and the output has no property.
C10_Witness ==
    /\ pc = "metadataEncoded"
    /\ Len(metadata) = 1 /\ Len(metadata[1].properties) = 1
    /\ Len(metadataDescription) = 1 /\ Len(metadataDescription[1].Properties) = 1
    /\ LET property == metadata[1].properties[1]
           description == metadataDescription[1].Properties[1]
       IN  /\ description.PropertyDetails.bIsNormalized
           /\ property.isNormalized
           /\ property.status = "Valid"
           /\ property.valueType.ComponentType = "Float32"
           /\ description.EncodingDetails.Conversion = "Coerce"
           /\ description.EncodingDetails.Type = "Scalar"
           /\ description.EncodingDetails.ComponentType = "Float"
           /\ description.bCoerce
    /\ Len(encodedMetadata) = 1
    /\ encodedMetadata[1].properties = <<>>

(***************************************************************************)
(* C11. The lifecycle of a texture handle. A LoadedTextureResult comes     *)
(* into being, not realized, only in a phase-1 call, and its pixel data is *)
(* staged then or never; a handle becomes realized only in a phase-2 call, *)
(* and only one that phase 1 made and that was not released before; a      *)
(* handle is passed to CesiumLifetime::destroy only in a teardown call,    *)
(* and only while it is realized.                                          *)
(***************************************************************************)
Phase1Ends == {"featuresEncoded", "metadataEncoded"}

Phase2Ends == {"featuresLoaded", "metadataLoaded"}

TeardownEnds == {"featuresDestroyed", "metadataDestroyed", "crashed"}

C11_LifecycleStep ==
    /\ Len(heap') >= Len(heap)
    /\ \A h \in DOMAIN heap :
        /\ heap'[h].staged = heap[h].staged
        /\ heap'[h].image = heap[h].image
        /\ (~heap[h].valid /\ heap'[h].valid) =>
            /\ pc \in Phase1Ends /\ pc' \in Phase2Ends
            /\ Count(destroyCalls, h) = 0
        /\ (heap[h].valid /\ ~heap'[h].valid) =>
            /\ pc' \in TeardownEnds
            /\ Count(destroyCalls', h) = Count(destroyCalls, h) + 1
    /\ \A h \in (DOMAIN heap') \ (DOMAIN heap) :
        /\ pc' \in Phase1Ends
        /\ ~heap'[h].valid
    /\ pc' \in Phase1Ends =>
        /\ \A h \in DOMAIN heap : heap'[h].valid = heap[h].valid
        /\ loadCalls' = loadCalls /\ destroyCalls' = destroyCalls
    /\ pc' \in Phase2Ends =>
        /\ destroyCalls' = destroyCalls
        /\ \A k \in DOMAIN loadCalls' :
            loadCalls'[k].ok => loadCalls'[k].handle \in DOMAIN heap
    /\ destroyCalls' # destroyCalls =>
        /\ pc' \in TeardownEnds
        /\ Len(destroyCalls') > Len(destroyCalls)
        /\ \A k \in DOMAIN destroyCalls' :
            IF k <= Len(destroyCalls)
            THEN destroyCalls'[k] = destroyCalls[k]
            ELSE /\ destroyCalls'[k] \in DOMAIN heap
                 /\ heap[destroyCalls'[k]].valid
                 /\ destroyCalls'[k] \in RealizedHandles

C11_LifecycleOrder == [][C11_LifecycleStep]_vars

\* A handle went the whole way: staged by phase 1, realized by phase 2 and
\* released by the teardown, while another teardown in the same structure
\* found a handle that was never realized and left it alone.
C11_Witness ==
    /\ pc \in {"featuresDestroyed", "metadataDestroyed"}
    /\ \E h \in DOMAIN heap :
        /\ heap[h].staged
        /\ h \in RealizedHandles
        /\ Count(destroyCalls, h) = 1
        /\ ~heap[h].valid
    /\ \E h \in DOMAIN heap :
        /\ h \in {loadCalls[k].handle : k \in DOMAIN loadCalls}
        /\ h \notin RealizedHandles
        /\ Count(destroyCalls, h) = 0

(***************************************************************************)
(* C12. getPixelFormat returns what the table says for every component     *)
(* type and type: PF_R8_UINT with 1 byte for Uint8 Scalar, PF_R8G8B8A8_UINT*)
(* with 4 for Uint8 Vec2/3/4, PF_R32_FLOAT with 4 for Float Scalar,        *)
(* PF_A32B32G32R32F with 16 for Float Vec2/3/4, PF_Unknown with 0 for      *)
(* anything else. No property of the output has a description whose        *)
(* encoding yields PF_Unknown, and a property whose description passes     *)
(* every check has its descriptor whatever became of the others.           *)
(***************************************************************************)
PixelFormatTable ==
    [d \in EncodingDetailsValues |->
        CASE d.ComponentType = "Uint8" /\ d.Type = "Scalar" -> <<"PF_R8_UINT", 1>>
          [] d.ComponentType = "Uint8" /\ d.Type \in {"Vec2", "Vec3", "Vec4"} ->
                <<"PF_R8G8B8A8_UINT", 4>>
          [] d.ComponentType = "Float" /\ d.Type = "Scalar" -> <<"PF_R32_FLOAT", 4>>
          [] d.ComponentType = "Float" /\ d.Type \in {"Vec2", "Vec3", "Vec4"} ->
                <<"PF_A32B32G32R32F", 16>>
          [] OTHER -> <<"PF_Unknown", 0>>]

\* The description passes every check of the loop before the Emplace.
PassesEveryCheck(description, property) ==
    /\ description.EncodingDetails.Conversion # "None"
    /\ description.PropertyDetails.bIsNormalized = property.isNormalized
    /\ property.isNormalized => property.valueType.ComponentType = "Uint8"
    /\ description.bCoerce /\ description.bParse
    /\ PixelFormatTable[[description.EncodingDetails EXCEPT !.Conversion = "Coerce"]][1]
           # "PF_Unknown"

C12_PixelFormatTable ==
    /\ pc = "formatted" =>
        /\ formatResult.format = PixelFormatTable[formatDetails][1]
        /\ formatResult.pixelSize = PixelFormatTable[formatDetails][2]
    /\ pc \in MetadataPhases =>
        /\ \A tp \in EncodedProperties :
            PixelFormatTable[[DescriptionOf(tp).EncodingDetails EXCEPT
                                 !.Conversion = "Coerce"]][1] # "PF_Unknown"
        /\ \A t \in DOMAIN encodedMetadata :
            \A i \in DOMAIN LiveTableOf(t).properties :
                LET property == LiveTableOf(t).properties[i]
                    wanted == TableDescriptionOf(t).Properties
                    k == FindByName(wanted, property.key)
                IN  (k # 0 /\ PassesEveryCheck(wanted[k], property)) =>
                        \E j \in DOMAIN encodedMetadata[t].properties :
                            encodedMetadata[t].properties[j].key = property.key

\* getPixelFormat was asked about Float with no type: the inner switch has
\* no case for it, and the answer is PF_Unknown with 0 bytes.
C12_Witness ==
    /\ pc = "formatted"
    /\ formatDetails.ComponentType = "Float"
    /\ formatDetails.Type = "None"
    /\ formatResult = [format |-> "PF_Unknown", pixelSize |-> 0]

\* The first of two properties was described with an encoding that has no
\* format and is not in the output; the second is.
C12_OmittedThenEncoded ==
    /\ pc = "metadataEncoded"
    /\ Len(metadata) = 1 /\ Len(metadata[1].properties) = 2
    /\ Len(metadataDescription) = 1 /\ Len(metadataDescription[1].Properties) = 2
    /\ metadataDescription[1].Properties[1].EncodingDetails.Type = "None"
    /\ metadataDescription[1].Properties[1].EncodingDetails.ComponentType = "Float"
    /\ Len(encodedMetadata) = 1
    /\ Len(encodedMetadata[1].properties) = 1
    /\ encodedMetadata[1].properties[1].key = PropertyKey(2)

(***************************************************************************)
(* C13. In one call of encodePrimitiveFeaturesAnyThreadPart the texture    *)
(* set without a label that has k such sets before it in the list (valid   *)
(* or not, described or not) resolves to _FEATURE_ID_TEXTURE_k, and that   *)
(* is the name of the encoded set made for it; no two such sets resolve to *)
(* the same name, and sets with a label, attribute sets and implicit sets  *)
(* leave the count alone.                                                  *)
(***************************************************************************)
IsUnlabeledTexture(set) == Len(set.label) = 0 /\ set.type = "Texture"

UnlabeledTexturesBefore(i) ==
    Cardinality({j \in 1..(i - 1) : IsUnlabeledTexture(features[j])})

\* _FEATURE_ID_TEXTURE_k for a k of one digit.
FeatureIdTextureName(k) == FEATURE_ID_TEXTURE_ \o <<DigitChars[k + 1]>>

C13_UnlabeledTextureNames ==
    pc \in FeaturesPhases =>
        /\ \A i \in DOMAIN features :
            IsUnlabeledTexture(features[i]) =>
                /\ ResolvedName(features, i) =
                       FeatureIdTextureName(UnlabeledTexturesBefore(i))
                /\ \A j \in DOMAIN features :
                    (j # i /\ IsUnlabeledTexture(features[j])) =>
                        ResolvedName(features, j) # ResolvedName(features, i)
        /\ \A i \in DOMAIN features :
            CounterBefore(features, i) = UnlabeledTexturesBefore(i)
        /\ \A k \in DOMAIN encodedFeatures :
            IsUnlabeledTexture(SetOf(encodedFeatures[k])) =>
                encodedFeatures[k].name =
                    FeatureIdTextureName(UnlabeledTexturesBefore(encodedFeatures[k].index + 1))

\* An invalid texture set without a label, then a texture set with a label,
\* then a valid texture set without one: the third is encoded under the
\* name _FEATURE_ID_TEXTURE_1.
C13_Witness ==
    /\ pc = "featuresEncoded"
    /\ Len(features) = 3
    /\ IsUnlabeledTexture(features[1]) /\ features[1].status # "Valid"
    /\ features[2].type = "Texture" /\ Len(features[2].label) # 0
    /\ IsUnlabeledTexture(features[3])
    /\ \E k \in DOMAIN encodedFeatures :
        /\ encodedFeatures[k].index = 2
        /\ encodedFeatures[k].name = FEATURE_ID_TEXTURE_ \o <<"1">>

(***************************************************************************)
(* C14. A live feature ID set that resolves to the empty name (no label,   *)
(* and an attribute set that is not valid or a set of no recognised type)  *)
(* has no encoded set in the output of phase 1, whatever the descriptions  *)
(* are, one with the empty string for its Name included.                   *)
(***************************************************************************)
C14_EmptyNameNeverEncoded ==
    pc \in FeaturesPhases =>
        \A i \in DOMAIN features :
            ResolvedName(features, i) = <<>> => EncodedSetsOf(i) = {}

\* A description with the empty Name was given, the empty name of an
\* attribute set that is not valid matched it, and the set was not encoded,
\* while a set after it was.
C14_Witness ==
    /\ pc = "featuresEncoded"
    /\ \E k \in DOMAIN featuresDescription : featuresDescription[k].Name = <<>>
    /\ \E i \in DOMAIN features :
        /\ features[i].type = "Attribute"
        /\ features[i].status # "Valid"
        /\ ResolvedName(features, i) = <<>>
        /\ FindByName(featuresDescription, <<>>) # 0
        /\ EncodedSetsOf(i) = {}
        /\ \E j \in DOMAIN features : j > i /\ EncodedSetsOf(j) # {}

(***************************************************************************)
(* C15. A live property that has a description by its key which passes     *)
(* every check of the loop (a conversion, the normalization, the           *)
(* converter, the pixel format), but whose status is not Valid, has        *)
(* exactly one descriptor in the output; the descriptor has a null         *)
(* pTexture, and phase 2 calls loadTextureGameThreadPart only for the      *)
(* descriptors that have a texture.                                        *)
(***************************************************************************)
DescriptorsOf(t, key) ==
    {j \in DOMAIN encodedMetadata[t].properties :
        encodedMetadata[t].properties[j].key = key}

C15_InvalidStatusTextureless ==
    pc \in MetadataPhases =>
        /\ \A t \in DOMAIN encodedMetadata :
            \A i \in DOMAIN LiveTableOf(t).properties :
                LET property == LiveTableOf(t).properties[i]
                    wanted == TableDescriptionOf(t).Properties
                    k == FindByName(wanted, property.key)
                IN  (/\ property.status # "Valid"
                     /\ k # 0
                     /\ PassesEveryCheck(wanted[k], property)) =>
                        /\ Cardinality(DescriptorsOf(t, property.key)) = 1
                        /\ \A j \in DescriptorsOf(t, property.key) :
                            encodedMetadata[t].properties[j].pTexture = NullHandle
        /\ pc = "metadataLoaded" =>
            /\ \A c \in DOMAIN loadCalls : loadCalls[c].handle # NullHandle
            /\ Len(loadCalls) =
                   Cardinality({tp \in EncodedProperties :
                                   EncodedProperty(tp).pTexture # NullHandle})

\* Of two described properties the first is not valid and the second is:
\* two descriptors, the first without a texture, and one call of
\* loadTextureGameThreadPart, for the second.
C15_Witness ==
    /\ pc = "metadataLoaded"
    /\ Len(metadata) = 1 /\ Len(metadata[1].properties) = 2
    /\ metadata[1].properties[1].status # "Valid"
    /\ metadata[1].properties[2].status = "Valid"
    /\ Len(encodedMetadata) = 1 /\ Len(encodedMetadata[1].properties) = 2
    /\ encodedMetadata[1].properties[1].key = metadata[1].properties[1].key
    /\ encodedMetadata[1].properties[1].pTexture = NullHandle
    /\ encodedMetadata[1].properties[2].pTexture # NullHandle
    /\ Len(loadCalls) = 1
    /\ loadCalls[1].handle = encodedMetadata[1].properties[2].pTexture

(***************************************************************************)
(* C16. The value type alone decides nothing: take the call that was made  *)
(* and the same call with the value type of one live property, or the      *)
(* value type one description declares, replaced by another one, the       *)
(* converters answering as before; if the live property is in both calls   *)
(* not normalized or of component type Uint8, the property has a           *)
(* descriptor in both outputs or in neither.                               *)
(***************************************************************************)
ValueTypes == [Type : {"Scalar", "Vec3"}, ComponentType : {"Uint8", "Float32"}]

NormalizedOnlyUint8(property) ==
    property.isNormalized => property.valueType.ComponentType = "Uint8"

\* The allocation results of the call that was made, for a call again.
SameAllocations ==
    [k \in 1..(Len(allocResults) + MaxProps + MaxTables) |->
        IF k <= Len(allocResults) THEN allocResults[k] ELSE TRUE]

\* Whether the tables a call returned hold a descriptor for the property of
\* that key of the table of that name.
HasDescriptor(tables, name, key) ==
    \E t \in DOMAIN tables :
        /\ tables[t].name = name
        /\ \E j \in DOMAIN tables[t].properties : tables[t].properties[j].key = key

EncodedAgain(modelDescription, propertyTables) ==
    encodeModelMetadataAnyThreadPart(
        modelDescription, propertyTables, <<>>, SameAllocations).tables

C16_ValueTypeNeverOmits ==
    pc = "metadataEncoded" =>
        \A ti \in DOMAIN metadata : \A i \in DOMAIN metadata[ti].properties :
            LET property == metadata[ti].properties[i]
                name == getNameForPropertyTable(metadata[ti])
                included == HasDescriptor(encodedMetadata, name, property.key)
            IN  NormalizedOnlyUint8(property) =>
                    /\ \A v \in ValueTypes :
                        NormalizedOnlyUint8([property EXCEPT !.valueType = v]) =>
                            (included <=>
                                HasDescriptor(
                                    EncodedAgain(
                                        metadataDescription,
                                        [metadata EXCEPT ![ti].properties[i].valueType = v]),
                                    name, property.key))
                    /\ \A di \in DOMAIN metadataDescription :
                       \A k \in DOMAIN metadataDescription[di].Properties :
                       \A v \in ValueTypes :
                            (included <=>
                                HasDescriptor(
                                    EncodedAgain(
                                        [metadataDescription EXCEPT
                                            ![di].Properties[k].PropertyDetails.Type = v.Type,
                                            ![di].Properties[k].PropertyDetails.ComponentType =
                                                v.ComponentType],
                                        metadata),
                                    name, property.key))

\* The description declares Uint8 and the live property, valid and not
\* normalized, is Float32: the property was encoded, with a texture.
C16_Witness ==
    /\ pc = "metadataEncoded"
    /\ Len(metadata) = 1 /\ Len(metadata[1].properties) = 1
    /\ Len(metadataDescription) = 1 /\ Len(metadataDescription[1].Properties) = 1
    /\ LET property == metadata[1].properties[1]
           description == metadataDescription[1].Properties[1]
       IN  /\ description.PropertyDetails.ComponentType = "Uint8"
           /\ property.valueType.ComponentType = "Float32"
           /\ ~property.isNormalized
           /\ property.status = "Valid"
    /\ Len(encodedMetadata) = 1
    /\ Len(encodedMetadata[1].properties) = 1
    /\ encodedMetadata[1].properties[1].pTexture # NullHandle

(***************************************************************************)
(* C17. The featureIdTextureMap lives for one call of                      *)
(* encodePrimitiveFeaturesAnyThreadPart. Of any two passes, no encoded set *)
(* of the later one holds a texture handle that an encoded set of the      *)
(* earlier one holds; when both encoded a set of the same source image,    *)
(* the two handles are two LoadedTextureResult objects for that image, and *)
(* each game-thread part that ran called loadTextureGameThreadPart once    *)
(* for the handle of its own pass and not for the other's.                 *)
(***************************************************************************)
\* The passes so far, the current one last.
Passes ==
    Append(earlier,
           [features |-> features, encodedFeatures |-> encodedFeatures,
            loadCalls |-> loadCalls, loaded |-> pc = "featuresLoaded"])

\* The texture handles a pass's encoded sets hold for an image.
HandlesOf(pass, image) ==
    {pass.encodedFeatures[k].pTexture :
        k \in {j \in DOMAIN pass.encodedFeatures :
                  /\ pass.encodedFeatures[j].hasTexture
                  /\ pass.encodedFeatures[j].pTexture # NullHandle
                  /\ pass.features[pass.encodedFeatures[j].index + 1].image = image}}

CallsOf(pass, handle) ==
    Cardinality({k \in DOMAIN pass.loadCalls : pass.loadCalls[k].handle = handle})

C17_CacheScopedToCall ==
    pc \in {"featuresEncoded", "featuresLoaded"} =>
        \A a \in DOMAIN Passes : \A b \in DOMAIN Passes :
            a < b =>
                /\ \A m \in Images : \A n \in Images :
                    HandlesOf(Passes[a], m) \cap HandlesOf(Passes[b], n) = {}
                /\ \A m \in Images :
                    \A g \in HandlesOf(Passes[a], m) : \A h \in HandlesOf(Passes[b], m) :
                        /\ g # h
                        /\ heap[g].image = m /\ heap[h].image = m
                        /\ Passes[a].loaded =>
                            /\ CallsOf(Passes[a], g) = 1
                            /\ CallsOf(Passes[a], h) = 0
                        /\ Passes[b].loaded =>
                            /\ CallsOf(Passes[b], h) = 1
                            /\ CallsOf(Passes[b], g) = 0

\* Two passes over a set of image 1, each with its game-thread part: two
\* handles, each realized in its own pass.
C17_Witness ==
    /\ pc = "featuresLoaded"
    /\ Len(earlier) = 1
    /\ earlier[1].loaded
    /\ \E g \in HandlesOf(Passes[1], 1) : \E h \in HandlesOf(Passes[2], 1) :
        /\ g # h
        /\ \E k \in DOMAIN earlier[1].loadCalls :
            earlier[1].loadCalls[k].handle = g /\ earlier[1].loadCalls[k].ok
        /\ \E k \in DOMAIN loadCalls :
            loadCalls[k].handle = h /\ loadCalls[k].ok

(***************************************************************************)
(* C18. As claimed: in the output of phase 1 every encoded feature ID set  *)
(* that has a texture, and every encoded property with a pTexture that is  *)
(* not null, holds a handle that is not null and whose pTextureData is     *)
(* staged.                                                                 *)
(***************************************************************************)
C18_HandlesNonNullAndStaged ==
    /\ pc \in FeaturesPhases =>
        \A k \in DOMAIN encodedFeatures :
            encodedFeatures[k].hasTexture =>
                /\ encodedFeatures[k].pTexture # NullHandle
                /\ heap[encodedFeatures[k].pTexture].staged
    /\ pc \in MetadataPhases =>
        \A tp \in EncodedProperties :
            EncodedProperty(tp).pTexture # NullHandle =>
                heap[EncodedProperty(tp).pTexture].staged

====
